---- MODULE Spec2Model ----
(***************************************************************************)
(* Model of the PersonaConsistency validator (src/validator/main.py).      *)
(*                                                                         *)
(* One PersonaConsistency object is constructed and then validate() is     *)
(* called on it repeatedly.  The sentence-embedding model and sklearn's    *)
(* cosine_similarity are external libraries: the first is a deterministic  *)
(* table from texts to vectors, the second is computed as sklearn computes *)
(* it (normalise both rows, then take the dot product).  Real numbers are  *)
(* fixed point: a similarity or a threshold s stands for s / 10000, and    *)
(* the embedding vectors have integer norms, so every similarity of the    *)
(* table is exact.  Formatting acts on the Python float nearest to the     *)
(* fixed-point value.                                                      *)
(***************************************************************************)
EXTENDS Integers, Sequences, FiniteSets, TLC

VARIABLES
    phase,         \* "new" | "ready" (constructed) | "failed" (__init__ raised)
    checker,       \* the object's attributes (self); NoObject until constructed
    ctor,          \* the arguments __init__ was called with, and what it raised
    encode_calls,  \* every call made to SentenceTransformer.encode, in order
    calls          \* one record per validate() call, in order

vars == <<phase, checker, ctor, encode_calls, calls>>

\* The number of validate() calls explored after construction.
MaxChecks == 3

\* similarity_threshold: float = 0.7, in units of 1/10000.
DefaultThreshold == 7000

----------------------------------------------------------------------------
(* Inputs *)

PersonaText == "a cheerful customer support agent"
HappyText   == "I'm so happy to help you today!"
HostileText == "Get lost, I don't care."

Texts == {PersonaText, HappyText, HostileText}

\* Python values handed to validate(value, ...): strings and non-strings.
StrValue(t) == [type |-> "str", repr |-> t]

StrValues == {StrValue(t) : t \in Texts}

NonStrValues ==
    { [type |-> "int",   repr |-> "42"],
      [type |-> "bytes", repr |-> HappyText] }

Values == StrValues \cup NonStrValues

\* metadata: Dict = {} ; the default (argument omitted) and a non-empty mapping.
Metadatas == {"{}", "{'skip': True}"}

\* Thresholds given to __init__: -0.5, the default 0.7, 1.0 and 1.5.
Thresholds == {0 - 5000, DefaultThreshold, 10000, 15000}

\* How the embedding library behaves during one call of __init__.
CtorFaults == {"none", "load", "encode"}

----------------------------------------------------------------------------
(* The external libraries *)

\* SentenceTransformer('all-MiniLM-L6-v2').encode([text]) : one row per text,
\* deterministic for a given text.
EmbedTable(text) ==
    CASE text = PersonaText -> <<7, 24>>
      [] text = HappyText   -> <<3, 4>>
      [] OTHER              -> <<20, 0 - 15>>

Encode(text) == [kind |-> "ndarray", row |-> EmbedTable(text)]

RECURSIVE SumSeq(_)
SumSeq(s) == IF s = <<>> THEN 0 ELSE Head(s) + SumSeq(Tail(s))

Dot(a, b) == SumSeq([i \in DOMAIN a |-> a[i] * b[i]])

ISqrt(n) == CHOOSE r \in 0..n : r * r <= n /\ (r + 1) * (r + 1) > n

\* sklearn.preprocessing.normalize: a row of norm 0 is divided by 1.
\* The result is in units of 1/100.
Normalize(v) ==
    LET n    == ISqrt(Dot(v, v))
        norm == IF n = 0 THEN 1 ELSE n
    IN  [i \in DOMAIN v |-> (v[i] * 100) \div norm]

\* sklearn.metrics.pairwise.cosine_similarity(X, Y)[0][0], in units of 1/10000.
cosine_similarity(X, Y) == Dot(Normalize(X.row), Normalize(Y.row))

----------------------------------------------------------------------------
(* Python name resolution *)

\* The names bound at module level: the imports and the class.
ModuleGlobals ==
    { "re", "Any", "Callable", "Dict", "Optional", "SentenceTransformer",
      "cosine_similarity", "FailResult", "PassResult", "ValidationResult",
      "Validator", "register_validator", "PersonaConsistency" }

Unbound == [kind |-> "unbound"]

\* Loading a bare name inside a function body: the frame's locals, then the
\* module's globals (no builtin has any of the names used here); a name
\* bound in neither raises NameError.
LoadName(frame, name) ==
    IF name \in DOMAIN frame THEN frame[name]
    ELSE IF name \in ModuleGlobals THEN [kind |-> "global", name |-> name]
    ELSE Unbound

----------------------------------------------------------------------------
(* PersonaConsistency *)

NoObject == [kind |-> "none"]

\* One call of self._model.encode([text]); arg is the expression encoded.
EncodeCall(text, arg, raised) == [text |-> text, arg |-> arg, raised |-> raised]

\* 2^k modulo 25.
RECURSIVE Pow2Mod25(_)
Pow2Mod25(k) == IF k = 0 THEN 1 ELSE (2 * Pow2Mod25(k - 1)) % 25

\* The binary exponent L of n/25 for n > 0: 2^L <= n/25 < 2^(L+1).
RECURSIVE Log2Over25(_)
Log2Over25(n) ==
    IF n >= 50 THEN 1 + Log2Over25(n \div 2)
    ELSE IF n < 25 THEN Log2Over25(2 * n) - 1
    ELSE 0

\* Where the Python float nearest to the decimal tie n/200 (n odd) lies: the
\* float is the 53-bit integer nearest to n * 2^k / 25 (k = 52 - L) scaled
\* back, so the remainder of n * 2^k modulo 25 says whether the float is the
\* tie itself (0), below it (1..12) or above it (13..24).
FloatOfTie(n) ==
    LET rem == ((n % 25) * Pow2Mod25(52 - Log2Over25(n))) % 25
    IN  IF rem = 0 THEN "exact" ELSE IF rem <= 12 THEN "below" ELSE "above"

\* f"{similarity:.2f}" : Python formats the binary value of the float, so a
\* value written as a decimal tie goes to the side its float lies on, and to
\* the even hundredth only when the float is the tie exactly (0.125, 0.375);
\* always two decimals, and the sign of a negative value is kept.
Format2f(similarity) ==
    LET a == IF similarity < 0 THEN 0 - similarity ELSE similarity
        q == a \div 100
        m == a % 100
        side == IF m # 50 THEN "none" ELSE FloatOfTie(2 * q + 1)
        up == \/ m > 50
              \/ side = "above"
              \/ (side = "exact" /\ q % 2 = 1)
        r == IF up THEN q + 1 ELSE q
    IN  (IF similarity < 0 THEN "-" ELSE "")
            \o ToString(r \div 100) \o "."
            \o ToString((r % 100) \div 10) \o ToString(r % 10)

InputMustBeString == "Input must be a string."

PersonaMessage(similarity) ==
    "Output does not maintain the expected persona. Similarity score: "
        \o Format2f(similarity)

PassResult(self, encoded) ==
    [self |-> self, kind |-> "PassResult", error_message |-> "",
     exception |-> "", encoded |-> encoded]

FailResult(self, error_message, encoded) ==
    [self |-> self, kind |-> "FailResult", error_message |-> error_message,
     exception |-> "", encoded |-> encoded]

Raise(self, exception, encoded) ==
    [self |-> self, kind |-> "raise", error_message |-> "",
     exception |-> exception, encoded |-> encoded]

\* Mutant: the type check also lets bytes through.
isinstance_str_or_bytes(value) == value.type \in {"str", "bytes"}

isinstance_str(value) == value.type = "str"

\* PersonaConsistency.__init__(persona_description, similarity_threshold).
\* fault says whether loading the model or encoding raises in this call.
PersonaConsistency_init(persona_description, similarity_threshold, fault) ==
    IF fault = "load"
    THEN Raise(NoObject, "EmbedderError", <<>>)
    ELSE IF fault = "encode"
    THEN Raise(NoObject, "EmbedderError",
               <<EncodeCall(persona_description, "persona_description", TRUE)>>)
    ELSE [self |->
            [kind |-> "PersonaConsistency",
             persona_description |-> persona_description,
             similarity_threshold |-> similarity_threshold,
             persona_embedding |-> Encode(persona_description)],
          kind |-> "return", error_message |-> "", exception |-> "",
          encoded |->
            <<EncodeCall(persona_description, "persona_description", FALSE)>>]

\* PersonaConsistency.validate, after the type check: the value is a string.
\* encode_raises says whether the embedding model raises when it is called
\* during this call.
validate_string(self, value, metadata, encode_raises) ==
    IF encode_raises
    THEN Raise(self, "EmbedderError", <<EncodeCall(value.repr, "value", TRUE)>>)
    ELSE
      LET encoded == <<EncodeCall(value.repr, "value", FALSE)>>
          output_embedding == Encode(value.repr)
          frame == [self |-> self, value |-> value, metadata |-> metadata,
                    output_embedding |-> output_embedding]
          persona_embedding == LoadName(frame, "persona_embedding")
      IN  IF persona_embedding = Unbound
          THEN Raise(self, "NameError", encoded)
          ELSE IF persona_embedding.kind # "ndarray"
          THEN Raise(self, "TypeError", encoded)
          ELSE
            LET similarity == cosine_similarity(persona_embedding, output_embedding)
            IN  IF similarity >= self.similarity_threshold
                THEN PassResult(self, encoded)
                ELSE FailResult(self, PersonaMessage(similarity), encoded)

\* Mutant: validate encodes the persona description again on every call.
validate_reencodes_persona(self, value, metadata, encode_raises) ==
    IF ~isinstance_str(value)
    THEN FailResult(self, InputMustBeString, <<>>)
    ELSE LET r == validate_string(self, value, metadata, encode_raises)
         IN  [r EXCEPT !.encoded =
                 <<EncodeCall(self.persona_description, "persona_description",
                              FALSE)>> \o @]

\* Mutant: validate catches the embedder's error and reports a failure.
validate_catches_embedder(self, value, metadata, encode_raises) ==
    IF ~isinstance_str(value)
    THEN FailResult(self, InputMustBeString, <<>>)
    ELSE LET r == validate_string(self, value, metadata, encode_raises)
         IN  IF r.exception = "EmbedderError"
             THEN FailResult(self, "Embedding failed.", r.encoded)
             ELSE r

\* Mutant: validate lets a key of metadata switch the check off.
validate_reads_metadata(self, value, metadata, encode_raises) ==
    IF metadata # "{}"
    THEN PassResult(self, <<>>)
    ELSE IF ~isinstance_str(value)
    THEN FailResult(self, InputMustBeString, <<>>)
    ELSE validate_string(self, value, metadata, encode_raises)

\* Mutant: validate stores the output's embedding over the cached one.
validate_overwrites_cache(self, value, metadata, encode_raises) ==
    IF ~isinstance_str(value)
    THEN FailResult(self, InputMustBeString, <<>>)
    ELSE LET r == validate_string(self, value, metadata, encode_raises)
         IN  IF encode_raises THEN r
             ELSE [r EXCEPT !.self.persona_embedding = Encode(value.repr)]

\* PersonaConsistency.validate(self, value, metadata)
validate(self, value, metadata, encode_raises) ==
    IF ~isinstance_str(value)
    THEN FailResult(self, InputMustBeString, <<>>)
    ELSE validate_string(self, value, metadata, encode_raises)

----------------------------------------------------------------------------
(* The state machine *)

NoCall == [kind |-> "none"]

Init ==
    /\ phase = "new"
    /\ checker = NoObject
    /\ ctor = NoCall
    /\ encode_calls = <<>>
    /\ calls = <<>>

\* PersonaConsistency(persona_description, similarity_threshold)
Construct(persona_description, similarity_threshold, fault) ==
    /\ phase = "new"
    /\ LET r == PersonaConsistency_init(persona_description,
                                        similarity_threshold, fault)
       IN  /\ phase' = IF r.kind = "raise" THEN "failed" ELSE "ready"
           /\ checker' = r.self
           /\ ctor' = [kind |-> "call",
                       persona_description |-> persona_description,
                       similarity_threshold |-> similarity_threshold,
                       fault |-> fault,
                       outcome |-> r.kind, exception |-> r.exception,
                       encoded |-> r.encoded]
           /\ encode_calls' = encode_calls \o r.encoded
    /\ UNCHANGED calls

\* checker.validate(value, metadata)
Validate(value, metadata, encode_raises) ==
    /\ phase = "ready"
    /\ Len(calls) < MaxChecks
    /\ LET r == validate(checker, value, metadata, encode_raises)
       IN  /\ checker' = r.self
           /\ calls' = Append(calls,
                  [value |-> value, metadata |-> metadata,
                   outcome |-> r.kind, error_message |-> r.error_message,
                   exception |-> r.exception, encoded |-> r.encoded,
                   calls_before |-> Len(encode_calls)])
           /\ encode_calls' = encode_calls \o r.encoded
    /\ UNCHANGED <<phase, ctor>>

Next ==
    \/ \E p \in Texts, t \in Thresholds, f \in CtorFaults : Construct(p, t, f)
    \/ \E v \in Values, m \in Metadatas, e \in BOOLEAN : Validate(v, m, e)

Spec == Init /\ [][Next]_vars

----------------------------------------------------------------------------
(* Vocabulary of the properties *)

IsString(c) == c.value.type = "str"

\* The embedding model raised during the call c.
EmbedderRaised(c) == \E k \in DOMAIN c.encoded : c.encoded[k].raised

\* The length of encode_calls when the i-th validate call returned or raised.
CallsAfter(i) ==
    IF i = Len(calls) THEN Len(encode_calls) ELSE calls[i + 1].calls_before

\* cosineSimilarity(embed(P), embed(C)) for the persona P the object was
\* constructed with and the candidate C of the call c.
ExpectedSimilarity(c) ==
    cosine_similarity(Encode(ctor.persona_description), Encode(c.value.repr))

\* The calls whose candidate is a string and whose embedder did not raise.
Scored == {i \in DOMAIN calls : IsString(calls[i]) /\ ~EmbedderRaised(calls[i])}

SameResult(c, d) ==
    /\ c.outcome = d.outcome
    /\ c.error_message = d.error_message
    /\ c.exception = d.exception

----------------------------------------------------------------------------
(* Properties *)

\* C1: for a string candidate (the embedder not raising), validate returns
\* Pass if and only if cosineSimilarity(embed(P), embed(C)) >= T, and Fail
\* otherwise; a similarity equal to T passes.
C1_PassIffSimilarityAtLeastThreshold ==
    \A i \in Scored :
        /\ calls[i].outcome = "PassResult"
             <=> ExpectedSimilarity(calls[i]) >= ctor.similarity_threshold
        /\ calls[i].outcome = "FailResult"
             <=> ExpectedSimilarity(calls[i]) < ctor.similarity_threshold

\* C2: for a non-string candidate, validate returns Fail with the message
\* "Input must be a string.", raises nothing and calls the embedder zero times.
C2_NonStringRejectedWithoutEmbedding ==
    \A i \in DOMAIN calls :
        ~IsString(calls[i]) =>
            /\ calls[i].outcome = "FailResult"
            /\ calls[i].error_message = "Input must be a string."
            /\ calls[i].exception = ""
            /\ calls[i].encoded = <<>>
            /\ CallsAfter(i) = calls[i].calls_before

C2_Witness ==
    \E i \in DOMAIN calls :
        /\ calls[i].value = [type |-> "int", repr |-> "42"]
        /\ calls[i].outcome = "FailResult"
        /\ \E j \in DOMAIN calls : calls[j].value.type = "bytes"

\* C3: for a string candidate, when the embedder does not raise, validate ends
\* in Pass or in Fail and never by raising an exception.
C3_StringCheckEndsInVerdict ==
    \A i \in Scored : calls[i].outcome \in {"PassResult", "FailResult"}

\* C4: construction encodes the persona description exactly once and caches
\* the result; after any sequence of validate calls the cached embedding is
\* still embed(P), the embedder has been called on the persona description
\* once, and each validate on a string made one embedder call, on the candidate.
C4_PersonaEncodedOnceAndCached ==
    phase = "ready" =>
        /\ checker.persona_description = ctor.persona_description
        /\ checker.persona_embedding = Encode(ctor.persona_description)
        /\ encode_calls[1] =
              [text |-> ctor.persona_description,
               arg |-> "persona_description", raised |-> FALSE]
        /\ Cardinality({k \in DOMAIN encode_calls :
                           encode_calls[k].arg = "persona_description"}) = 1
        /\ \A i \in DOMAIN calls :
              IsString(calls[i]) =>
                  /\ CallsAfter(i) = calls[i].calls_before + 1
                  /\ encode_calls[CallsAfter(i)].arg = "value"
                  /\ encode_calls[CallsAfter(i)].text = calls[i].value.repr

C4_Witness ==
    /\ phase = "ready"
    /\ Len(calls) = MaxChecks
    /\ \A i \in DOMAIN calls : IsString(calls[i])
    /\ calls[1].value.repr = ctor.persona_description
    /\ calls[2].value.repr # ctor.persona_description
    /\ Len(encode_calls) = MaxChecks + 1

\* C5: when a string candidate misses the threshold, validate returns Fail with
\* the message "Output does not maintain the expected persona. Similarity
\* score: " followed by the similarity with two decimals (0.4321 gives "0.43"),
\* which differs from the message for a non-string.
C5_ThresholdMissMessage ==
    /\ Format2f(4321) = "0.43"
    /\ \A i \in Scored :
          ExpectedSimilarity(calls[i]) < ctor.similarity_threshold =>
              /\ calls[i].outcome = "FailResult"
              /\ calls[i].error_message =
                    "Output does not maintain the expected persona. Similarity score: "
                        \o Format2f(ExpectedSimilarity(calls[i]))
              /\ calls[i].error_message # "Input must be a string."

\* C6: a candidate identical to the persona description has similarity 1.0
\* and passes for every threshold T <= 1.0.
C6_IdenticalTextPasses ==
    \A i \in Scored :
        (/\ calls[i].value.repr = ctor.persona_description
         /\ ctor.similarity_threshold <= 10000) =>
            /\ ExpectedSimilarity(calls[i]) = 10000
            /\ calls[i].outcome = "PassResult"

\* C7: when the embedder raises, during validate on a string or during
\* construction, the error reaches the caller: no verdict is returned, the
\* embedder is not called again, and the error is not turned into a Fail.
C7_EmbedderErrorPropagates ==
    /\ \A i \in DOMAIN calls :
          EmbedderRaised(calls[i]) =>
              /\ calls[i].outcome = "raise"
              /\ calls[i].exception = "EmbedderError"
              /\ calls[i].error_message = ""
              /\ Len(calls[i].encoded) = 1
              /\ CallsAfter(i) = calls[i].calls_before + 1
    /\ (ctor.kind = "call" /\ ctor.fault # "none") =>
          /\ phase = "failed"
          /\ ctor.outcome = "raise"
          /\ ctor.exception = "EmbedderError"
          /\ checker = NoObject
          /\ Len(encode_calls) <= 1
          /\ calls = <<>>

C7_Witness ==
    \E i, j \in DOMAIN calls :
        /\ i < j
        /\ IsString(calls[i]) /\ EmbedderRaised(calls[i])
        /\ calls[i].outcome = "raise"
        /\ calls[j].value = calls[i].value
        /\ ~EmbedderRaised(calls[j])

\* C8: two validate calls on the same object and the same candidate that differ
\* only in metadata have the same outcome and the same message.
C8_MetadataIgnored ==
    \A i, j \in DOMAIN calls :
        (/\ calls[i].value = calls[j].value
         /\ calls[i].metadata # calls[j].metadata
         /\ EmbedderRaised(calls[i]) = EmbedderRaised(calls[j])) =>
            /\ SameResult(calls[i], calls[j])
            /\ calls[i].encoded = calls[j].encoded

C8_Witness ==
    \E i, j \in DOMAIN calls :
        /\ IsString(calls[i])
        /\ calls[i].value = calls[j].value
        /\ calls[i].metadata = "{}"
        /\ calls[j].metadata # "{}"
        /\ ~EmbedderRaised(calls[i]) /\ ~EmbedderRaised(calls[j])
        /\ SameResult(calls[i], calls[j])

\* C9: validate changes none of the persona description, the threshold and
\* the cached persona embedding, and the outcome of validate on a candidate is
\* the same after any earlier calls as in the first call after construction.
HistoryIndependent ==
    \A i, j \in DOMAIN calls :
        (/\ i < j
         /\ calls[i].value = calls[j].value
         /\ EmbedderRaised(calls[i]) = EmbedderRaised(calls[j])) =>
            SameResult(calls[i], calls[j])

C9_ChecksIndependentOfHistory ==
    [][phase = "ready" => (checker' = checker /\ HistoryIndependent')]_vars

C9_Witness ==
    /\ Len(calls) >= 3
    /\ IsString(calls[1]) /\ ~EmbedderRaised(calls[1])
    /\ calls[3].value = calls[1].value /\ ~EmbedderRaised(calls[3])
    /\ calls[2].value # calls[1].value
    /\ checker.persona_embedding = Encode(ctor.persona_description)
    /\ checker.similarity_threshold = ctor.similarity_threshold

\* C10: construction accepts any threshold, and with a threshold above 1 every
\* string candidate yields Fail, with a threshold below 0 every string
\* candidate yields Pass.
C10_OutOfRangeThreshold ==
    /\ \A i \in Scored :
          /\ ctor.similarity_threshold > 10000 => calls[i].outcome = "FailResult"
          /\ ctor.similarity_threshold < 0 => calls[i].outcome = "PassResult"
    /\ (ctor.kind = "call" /\ ctor.fault = "none") => phase = "ready"

====
